---- MODULE Spec2Model ----
(***************************************************************************)
(* Model of the Python -> {c, cpp, java} transpiler of src/app.py:         *)
(* PythonParser (statement walker + expression renderer), the IR it        *)
(* builds, and Generator (backend emission with declared-variable          *)
(* tracking).                                                              *)
(*                                                                         *)
(* Text is modelled as a sequence of tokens (strings); the concatenation   *)
(* of the tokens is the byte-exact Python string.  A token never contains  *)
(* a double quote together with other characters unless it is a fixed      *)
(* piece of a generator format string, so `'"' in val` and                 *)
(* `val.replace('"', '')` are computed on tokens.                          *)
(***************************************************************************)
EXTENDS Integers, Sequences, FiniteSets, TLC

VARIABLES code, ir, self, result, prev

vars == <<code, ir, self, result, prev>>

(***************************************************************************)
(* Bounds of the explored input space.                                     *)
(***************************************************************************)
\* total number of statement nodes of an input program
MaxNodes == 3
\* number of arguments of a print call (print-only programs)
MaxArgs == 3
\* number of arguments of the call iterated by a for statement
MaxIterArgs == 2

Langs == {"c", "cpp", "java"}

Quote == "\""

RECURSIVE Cat(_)
\* the Python string a token sequence stands for
Cat(toks) == IF toks = <<>> THEN "" ELSE Head(toks) \o Cat(Tail(toks))

(***************************************************************************)
(* Python ast nodes (the shapes the walker inspects).                      *)
(***************************************************************************)
\* ast.Constant; the value is held in the field of its Python type
IntConst(v)      == [kind |-> "Constant", vtype |-> "int", int |-> v]
StrConst(v)      == [kind |-> "Constant", vtype |-> "str", str |-> v]
FloatConst(w, f) == [kind |-> "Constant", vtype |-> "float", whole |-> w, frac |-> f]
Name(id)       == [kind |-> "Name", id |-> id]
BinOp(l, op, r) == [kind |-> "BinOp", left |-> l, op |-> op, right |-> r]
Attribute(v, a) == [kind |-> "Attribute", value |-> v, attr |-> a]
Call(f, args)  == [kind |-> "Call", func |-> f, args |-> args]
Compare(l, op, r) == [kind |-> "Compare", left |-> l, ops |-> <<op>>, comparators |-> <<r>>]

FunctionDef      == [kind |-> "FunctionDef"]
Import           == [kind |-> "Import"]
Pass             == [kind |-> "Pass"]
Assign(t, v)     == [kind |-> "Assign", targets |-> <<t>>, value |-> v]
ExprStmt(e)      == [kind |-> "Expr", value |-> e]
IfStmt(t, b, e)  == [kind |-> "If", test |-> t, body |-> b, orelse |-> e]
WhileStmt(t, b)  == [kind |-> "While", test |-> t, body |-> b]
ForStmt(t, i, b) == [kind |-> "For", target |-> t, iter |-> i, body |-> b]

\* ast.parse(code): either a Module with a body, or a raised SyntaxError
Module(body)     == [parses |-> TRUE, body |-> body]
Unparsable(msg)  == [parses |-> FALSE, msg |-> msg]

(***************************************************************************)
(* Exceptions the walker can raise.                                        *)
(***************************************************************************)
NoExc == ""
AttributeError(kind, attr) == "'" \o kind \o "' object has no attribute '" \o attr \o "'"
IndexError == "list index out of range"

(***************************************************************************)
(* 2. PYTHON PARSER                                                        *)
(***************************************************************************)
\* str() of a constant's value
Str(node) ==
    IF node.vtype = "float"
    THEN ToString(node.whole) \o "." \o ToString(node.frac)
    ELSE IF node.vtype = "int" THEN ToString(node.int) ELSE node.str

RECURSIVE eval_val(_)
eval_val(node) ==
    IF node.kind = "Constant" THEN
        IF node.vtype = "str" THEN [text |-> <<Quote, Str(node), Quote>>, type |-> "String"]
        ELSE IF node.vtype = "float" THEN [text |-> <<Str(node)>>, type |-> "double"]
        ELSE [text |-> <<Str(node)>>, type |-> "int"]
    ELSE IF node.kind = "Name" THEN [text |-> <<node.id>>, type |-> "var"]
    ELSE IF node.kind = "BinOp" THEN
        LET left  == eval_val(node.left).text
            right == eval_val(node.right).text
            op    == IF node.op \in {"Add", "Sub", "Mult", "Div"}
                     THEN CASE node.op = "Add" -> "+" [] node.op = "Sub" -> "-"
                            [] node.op = "Mult" -> "*" [] node.op = "Div" -> "/"
                     ELSE "+"
        IN [text |-> left \o <<" ", op, " ">> \o right, type |-> "auto"]
    ELSE [text |-> <<"0">>, type |-> "int"]

eval_cond(node) ==
    IF node.kind = "Compare" THEN
        LET left  == eval_val(node.left).text
            right == eval_val(node.comparators[1]).text
            o     == node.ops[1]
            op    == IF o \in {"Eq", "Gt", "Lt", "GtE", "LtE"}
                     THEN CASE o = "Eq" -> "==" [] o = "Gt" -> ">" [] o = "Lt" -> "<"
                            [] o = "GtE" -> ">=" [] o = "LtE" -> "<="
                     ELSE "=="
        IN left \o <<" ", op, " ">> \o right
    ELSE <<"true">>

\* mutant: the entry-point guard is never recognised
never_main_check(node) == FALSE

\* a missing attribute raises inside the try and the bare except returns False
is_main_check(node) ==
    /\ node.test.kind = "Compare"
    /\ node.test.left.kind = "Name"
    /\ node.test.left.id = "__name__"
    /\ node.test.comparators[1].kind = "Constant"
    /\ node.test.comparators[1].vtype = "str"
    /\ node.test.comparators[1].str = "__main__"

\* one argument of print: rendered, classified by the quote it contains, quotes removed
PrintArg(arg) ==
    LET val    == eval_val(arg).text
        is_str == \E i \in 1..Len(val) : val[i] = Quote
    IN [val |-> SelectSeq(val, LAMBDA t : t # Quote),
        type |-> IF is_str THEN "string" ELSE "var"]

Returned(block) == [block |-> block, exc |-> NoExc]
Raised(block, e) == [block |-> block, exc |-> e]

RECURSIVE visit_block(_, _)
RECURSIVE visit_node(_, _)

\* the body of the loop of _visit_block for one node; block is the list being appended to
visit_node(node, block) ==
    IF node.kind \in {"FunctionDef", "Import", "ImportFrom"} THEN Returned(block)
    ELSE IF node.kind = "If" /\ is_main_check(node) THEN visit_block(node.body, block)
    ELSE IF node.kind = "Assign" THEN
        IF node.targets[1].kind # "Name"
        THEN Raised(block, AttributeError(node.targets[1].kind, "id"))
        ELSE LET v == eval_val(node.value)
             IN Returned(Append(block, [action |-> "ASSIGN", name |-> node.targets[1].id,
                                        value |-> v.text, type |-> v.type]))
    ELSE IF node.kind = "Expr" /\ node.value.kind = "Call" THEN
        IF node.value.func.kind = "Name" /\ node.value.func.id = "print"
        THEN Returned(Append(block,
                 [action |-> "PRINT",
                  parts |-> [i \in 1..Len(node.value.args) |-> PrintArg(node.value.args[i])]]))
        ELSE Returned(block)
    ELSE IF node.kind = "If" THEN
        LET cond == eval_cond(node.test)
            b    == visit_block(node.body, <<>>)
        IN IF b.exc # NoExc THEN Raised(block, b.exc)
           ELSE LET e == IF node.orelse # <<>> THEN visit_block(node.orelse, <<>>)
                         ELSE Returned(<<>>)
                IN IF e.exc # NoExc THEN Raised(block, e.exc)
                   ELSE Returned(Append(block, [action |-> "IF", condition |-> cond,
                                                body |-> b.block, else_body |-> e.block]))
    ELSE IF node.kind = "While" THEN
        LET cond == eval_cond(node.test)
            b    == visit_block(node.body, <<>>)
        IN IF b.exc # NoExc THEN Raised(block, b.exc)
           ELSE Returned(Append(block, [action |-> "WHILE", condition |-> cond,
                                        body |-> b.block]))
    ELSE IF node.kind = "For" THEN
        IF node.target.kind # "Name"
        THEN Raised(block, AttributeError(node.target.kind, "id"))
        ELSE IF node.iter.kind = "Call" /\ node.iter.func.kind # "Name"
        THEN Raised(block, AttributeError(node.iter.func.kind, "id"))
        ELSE IF node.iter.kind = "Call" /\ node.iter.func.id = "range"
                /\ node.iter.args = <<>>
        THEN Raised(block, IndexError)
        ELSE LET limit == IF node.iter.kind = "Call" /\ node.iter.func.id = "range"
                          THEN eval_val(node.iter.args[1]).text
                          ELSE <<"10">>
                 b     == visit_block(node.body, <<>>)
             IN IF b.exc # NoExc THEN Raised(block, b.exc)
                ELSE Returned(Append(block, [action |-> "FOR", var |-> node.target.id,
                                             limit |-> limit, body |-> b.block]))
    ELSE Returned(block)

\* appends to block in place; an exception leaves what was appended so far
visit_block(nodes, block) ==
    IF nodes = <<>> THEN Returned(block)
    ELSE LET r == visit_node(Head(nodes), block)
         IN IF r.exc # NoExc THEN r ELSE visit_block(Tail(nodes), r.block)

CommentInstr(e) == [action |-> "COMMENT", text |-> "Error: " \o e]

\* PythonParser.parse: ir.instructions after the try/except
parse(c) ==
    IF ~c.parses THEN <<CommentInstr(c.msg)>>
    ELSE LET r == visit_block(c.body, <<>>)
         IN IF r.exc # NoExc THEN Append(r.block, CommentInstr(r.exc)) ELSE r.block

(***************************************************************************)
(* 3. GENERATOR                                                            *)
(***************************************************************************)
\* one line of output text: "    " * tab followed by the tokens
Line(tab, toks) == [tab |-> tab, toks |-> toks]

\* self.out.append(f"{tab}...") of a single line
Emit(s, indent_lvl, toks) == [s EXCEPT !.out = Append(@, <<Line(indent_lvl, toks)>>)]

RECURSIVE Join(_, _)
\* sep.join(items), items being token sequences
Join(items, sep) ==
    IF items = <<>> THEN <<>>
    ELSE IF Len(items) = 1 THEN items[1]
    ELSE items[1] \o <<sep>> \o Join(Tail(items), sep)

\* the concrete type of a declaration ("Type Fixes")
TypeFix(vtype, lang) ==
    LET t == IF vtype = "auto" \/ vtype = "var" THEN "int" ELSE vtype
    IN IF lang = "java" /\ t = "String" THEN "String"
       ELSE IF lang = "c" /\ t = "String" THEN "char*"
       ELSE IF lang = "cpp" /\ t = "String" THEN "string"
       ELSE t

\* the declaration test of an ASSIGN
IsDeclared(name, s) == name \in s.declared_vars

GenAssign(instr, indent_lvl, s) ==
    IF IsDeclared(instr.name, s)
    THEN Emit(s, indent_lvl, <<instr.name, " = ">> \o instr.value \o <<";">>)
    ELSE Emit([s EXCEPT !.declared_vars = @ \cup {instr.name}], indent_lvl,
              <<TypeFix(instr.type, s.lang), " ", instr.name, " = ">> \o instr.value \o <<";">>)

\* one element of the cpp/java list comprehension; op is "<<" or "+"
StreamItem(p, i, op) ==
    IF p.type = "string" THEN <<Quote>> \o p.val \o <<Quote>>
    ELSE IF i > 1 THEN <<"\" \"", " " \o op \o " ">> \o p.val
    ELSE p.val

GenPrint(instr, indent_lvl, s) ==
    LET parts == instr.parts
    IN IF s.lang = "cpp" THEN
           LET stream == Join([i \in 1..Len(parts) |-> StreamItem(parts[i], i, "<<")], " << ")
           IN Emit(s, indent_lvl, <<"cout << ">> \o stream \o <<" << endl;">>)
       ELSE IF s.lang = "java" THEN
           LET stream == Join([i \in 1..Len(parts) |-> StreamItem(parts[i], i, "+")], " + ")
           IN Emit(s, indent_lvl, <<"System.out.println(">> \o stream \o <<");">>)
       ELSE IF s.lang = "c" THEN
           LET fmt  == Join([i \in 1..Len(parts) |->
                               IF parts[i].type = "string" THEN <<"%s">> ELSE <<"%d">>], " ")
               vals == Join([i \in 1..Len(parts) |->
                               IF parts[i].type = "string"
                               THEN <<Quote>> \o parts[i].val \o <<Quote>>
                               ELSE parts[i].val], ", ")
           IN Emit(s, indent_lvl, <<"printf(\"">> \o fmt \o <<"\\n\", ">> \o vals \o <<");">>)
       ELSE s

\* mutant: the loop variable is not registered as declared
ForHeaderUnregistered(instr, indent_lvl, s) ==
    Emit(s, indent_lvl, <<"for(int ", instr.var, "=0; ", instr.var, "<">> \o instr.limit
                         \o <<"; ", instr.var, "++) {">>)

\* the FOR header line and the registration of the loop variable
ForHeader(instr, indent_lvl, s) ==
    [Emit(s, indent_lvl, <<"for(int ", instr.var, "=0; ", instr.var, "<">> \o instr.limit
                          \o <<"; ", instr.var, "++) {">>)
       EXCEPT !.declared_vars = @ \cup {instr.var}]

\* mutant: the else line is emitted for every IF
AlwaysElse(instr) == TRUE

\* the `if instr['else_body']:` test
HasElse(instr) == instr.else_body # <<>>

\* the closing line of a FOR, WHILE or IF
CloseBlock(s, indent_lvl) == Emit(s, indent_lvl, <<"}">>)

RECURSIVE gen_block(_, _, _)
RECURSIVE gen_instr(_, _, _)

RECURSIVE gen_block_scoped(_, _, _)
\* mutant: declarations are scoped to their block and forgotten when it ends
gen_block_scoped(instructions, indent_lvl, s) ==
    IF instructions = <<>> THEN s
    ELSE [gen_block_scoped(Tail(instructions), indent_lvl,
                           gen_instr(Head(instructions), indent_lvl, s))
            EXCEPT !.declared_vars = s.declared_vars]

\* the body of the loop of _gen_block for one instruction
gen_instr(instr, indent_lvl, s) ==
    IF instr.action = "ASSIGN" THEN GenAssign(instr, indent_lvl, s)
    ELSE IF instr.action = "PRINT" THEN GenPrint(instr, indent_lvl, s)
    ELSE IF instr.action = "FOR" THEN
        CloseBlock(gen_block(instr.body, indent_lvl + 1, ForHeader(instr, indent_lvl, s)),
                   indent_lvl)
    ELSE IF instr.action = "WHILE" THEN
        CloseBlock(gen_block(instr.body, indent_lvl + 1,
                             Emit(s, indent_lvl, <<"while (">> \o instr.condition \o <<") {">>)),
                   indent_lvl)
    ELSE IF instr.action = "IF" THEN
        LET t == gen_block(instr.body, indent_lvl + 1,
                           Emit(s, indent_lvl, <<"if (">> \o instr.condition \o <<") {">>))
            e == IF HasElse(instr)
                 THEN gen_block(instr.else_body, indent_lvl + 1,
                                Emit(t, indent_lvl, <<"} else {">>))
                 ELSE t
        IN CloseBlock(e, indent_lvl)
    ELSE s

gen_block(instructions, indent_lvl, s) ==
    IF instructions = <<>> THEN s
    ELSE gen_block(Tail(instructions), indent_lvl, gen_instr(Head(instructions), indent_lvl, s))

\* a Generator() on which generate was never called
NewGenerator == [out |-> <<>>, lang |-> "none", declared_vars |-> {}]

\* mutant: the declared set of the previous call is kept
ResetKeepDeclared(s, lang) == [out |-> <<>>, lang |-> lang, declared_vars |-> s.declared_vars]

\* the three assignments that open generate
ResetState(s, lang) == [out |-> <<>>, lang |-> lang, declared_vars |-> {}]

Header(lang) ==
    IF lang = "c" THEN <<Line(0, <<"#include <stdio.h>">>), Line(0, <<>>),
                         Line(0, <<"int main() {">>)>>
    ELSE IF lang = "cpp" THEN <<Line(0, <<"#include <iostream>">>),
                                Line(0, <<"using namespace std;">>), Line(0, <<>>),
                                Line(0, <<"int main() {">>)>>
    ELSE <<Line(0, <<"public class Main {">>),
           Line(1, <<"public static void main(String[] args) {">>)>>

Footer(lang) ==
    IF lang = "java" THEN <<Line(1, <<"}">>), Line(0, <<"}">>)>>
    ELSE <<Line(1, <<"return 0;">>), Line(0, <<"}">>)>>

BodyIndent(lang) == IF lang = "java" THEN 2 ELSE 1

RECURSIVE Tab(_)
\* "    " * indent_lvl
Tab(n) == IF n = 0 THEN "" ELSE "    " \o Tab(n - 1)

LineText(l) == Tab(l.tab) \o Cat(l.toks)

RECURSIVE JoinText(_)
\* "\n".join of the texts of a sequence of lines
JoinText(ls) ==
    IF ls = <<>> THEN ""
    ELSE IF Len(ls) = 1 THEN LineText(ls[1])
    ELSE LineText(ls[1]) \o "\n" \o JoinText(Tail(ls))

RECURSIVE Lines(_)
\* the lines of "\n".join(out): every entry of out is one or more lines
Lines(out) == IF out = <<>> THEN <<>> ELSE Head(out) \o Lines(Tail(out))

\* Generator.generate: the generator afterwards and the returned text, held as the
\* lines of "\n".join(self.out); JoinText gives its bytes
generate(s, instructions, lang) ==
    LET s0 == ResetState(s, lang)
        s1 == [s0 EXCEPT !.out = Append(@, Header(lang))]
        s2 == gen_block(instructions, BodyIndent(lang), s1)
        s3 == [s2 EXCEPT !.out = Append(@, Footer(lang))]
    IN [self |-> s3, ret |-> Lines(s3.out)]

(***************************************************************************)
(* Input programs.                                                         *)
(***************************************************************************)
CondLt   == Compare(Name("x"), "Lt", IntConst(5))
CondMain == Compare(Name("__name__"), "Eq", StrConst("__main__"))
PrintStmt(args) == ExprStmt(Call(Name("print"), args))
RangeCall(args) == Call(Name("range"), args)

\* simple statements: x = 1, y = "a", a.b = 1, print("a", x), def
LeafStmts ==
    { Assign(Name("x"), IntConst(1)),
      Assign(Name("y"), StrConst("a")),
      Assign(Attribute(Name("a"), "b"), IntConst(1)),
      PrintStmt(<<StrConst("a"), Name("x")>>),
      FunctionDef }

RECURSIVE StmtsOfSize(_)
RECURSIVE BlocksOfSize(_)

\* the statements made of n nodes; a compound statement's body is never empty
StmtsOfSize(n) ==
    IF n = 1 THEN LeafStmts
    ELSE { WhileStmt(CondLt, b) : b \in BlocksOfSize(n - 1) }
         \cup { ForStmt(Name("x"), RangeCall(<<IntConst(3)>>), b) :
                  b \in BlocksOfSize(n - 1) }
         \cup UNION { { IfStmt(t, b, e) : t \in {CondLt, CondMain},
                                         b \in BlocksOfSize(k),
                                         e \in BlocksOfSize(n - 1 - k) } : k \in 1..(n - 1) }

\* the statement sequences made of n nodes in all
BlocksOfSize(n) ==
    IF n = 0 THEN {<<>>}
    ELSE UNION { { <<st>> \o b : st \in StmtsOfSize(k), b \in BlocksOfSize(n - k) } :
                 k \in 1..n }

\* str(e) of the SyntaxError of `x = (`
SyntaxErrorText == "'(' was never closed (<unknown>, line 1)"

Programs ==
    { Module(b) : b \in UNION { BlocksOfSize(n) : n \in 0..MaxNodes } }
    \cup { Unparsable(SyntaxErrorText) }

RECURSIVE SeqsUpTo(_, _)
\* the sequences over S of length at most n
SeqsUpTo(S, n) ==
    IF n = 0 THEN {<<>>}
    ELSE SeqsUpTo(S, n - 1) \cup { Append(q, e) : q \in { r \in SeqsUpTo(S, n - 1) : Len(r) = n - 1 }, e \in S }

\* arguments of print: "a", " ", b, 1, b + 1
PrintArgs ==
    { StrConst("a"), Name("b"), IntConst(1),
      BinOp(Name("b"), "Add", IntConst(1)) }

PrintPrograms == { Module(<<PrintStmt(args)>>) : args \in SeqsUpTo(PrintArgs, MaxArgs) }

\* iterables of a for statement: range(..), len(..), a.items(..), a bare name
IterArgs == { IntConst(5), Name("n") }
Iterables ==
    { Call(f, args) : f \in { Name("range"), Name("len"), Attribute(Name("a"), "items") },
                      args \in SeqsUpTo(IterArgs, MaxIterArgs) }
    \cup { Name("items") }

ForPrograms ==
    { Module(<<ForStmt(Name("i"), it, b)>>) :
        it \in Iterables,
        b \in { <<Pass>>, <<Assign(Name("i"), IntConst(1))>> } }

(***************************************************************************)
(* The state machine: one translation request's source, its IR, the        *)
(* Generator instance, the text last returned, and the generate call       *)
(* before that.                                                            *)
(***************************************************************************)
NoIR   == [built |-> FALSE, instructions |-> <<>>]
NoCall == [instructions |-> <<>>, lang |-> "none", result |-> <<>>]

InitWith(P) ==
    /\ code \in P
    /\ ir = NoIR
    /\ self = NewGenerator
    /\ result = <<>>
    /\ prev = NoCall

Init == InitWith(Programs)
InitPrint == InitWith(PrintPrograms)
InitFor == InitWith(ForPrograms)

\* the generate call that produced result
LastCall == [instructions |-> ir.instructions, lang |-> self.lang, result |-> result]

\* PythonParser().parse(code)
Parse ==
    /\ ir' = [built |-> TRUE, instructions |-> parse(code)]
    /\ UNCHANGED <<code, self, result, prev>>

\* generate(ir, lang) on the existing Generator instance
Generate(lang) ==
    /\ ir.built
    /\ LET g == generate(self, ir.instructions, lang)
       IN /\ self' = g.self
          /\ result' = g.ret
    /\ prev' = LastCall
    /\ UNCHANGED <<code, ir>>

\* the /convert handler: a new parser, a new Generator, parse then generate
Convert(lang) ==
    /\ LET instructions == parse(code)
           g == generate(NewGenerator, instructions, lang)
       IN /\ ir' = [built |-> TRUE, instructions |-> instructions]
          /\ self' = g.self
          /\ result' = g.ret
    /\ prev' = LastCall
    /\ UNCHANGED code

Next ==
    \/ Parse
    \/ \E lang \in Langs : Generate(lang)
    \/ \E lang \in Langs : Convert(lang)

Spec == Init /\ [][Next]_vars
SpecPrint == InitPrint /\ [][Next]_vars
SpecFor == InitFor /\ [][Next]_vars

(***************************************************************************)
(* Reading the generated text.                                             *)
(***************************************************************************)
Generated == self.lang \in Langs

\* the indices of the lines between the header and the footer
BodyLines == (Len(Header(self.lang)) + 1)..(Len(result) - Len(Footer(self.lang)))

\* `<type> n = ...;`
IsAssignDecl(l, n) ==
    Len(l.toks) >= 4 /\ l.toks[2] = " " /\ l.toks[3] = n /\ l.toks[4] = " = "

\* `n = ...;`
IsReassign(l, n) == Len(l.toks) >= 2 /\ l.toks[1] = n /\ l.toks[2] = " = "

\* `for(int n=0; ...`
IsForDecl(l, n) == Len(l.toks) >= 2 /\ l.toks[1] = "for(int " /\ l.toks[2] = n

VarNames == {"x", "y", "i"}

\* the blocks nested directly in an instruction
SubBlocks(h) ==
    IF h.action = "IF" THEN <<h.body, h.else_body>>
    ELSE IF h.action \in {"FOR", "WHILE"} THEN <<h.body>>
    ELSE <<>>

RECURSIVE Flatten(_)
\* the instructions of a block at any depth, in generation order
Flatten(instructions) ==
    IF instructions = <<>> THEN <<>>
    ELSE LET h == Head(instructions)
             sub == SubBlocks(h)
         IN <<h>>
            \o (IF Len(sub) >= 1 THEN Flatten(sub[1]) ELSE <<>>)
            \o (IF Len(sub) >= 2 THEN Flatten(sub[2]) ELSE <<>>)
            \o Flatten(Tail(instructions))

CountInstr(instructions, P(_)) == Len(SelectSeq(Flatten(instructions), P))

CountLines(P(_)) == Cardinality({ i \in 1..Len(result) : P(result[i]) })

ParseFailed == ir.built /\ \E i \in 1..Len(ir.instructions) : ir.instructions[i].action = "COMMENT"

(***************************************************************************)
(* C1: an ASSIGN to n emits a type declaration only if nothing earlier in  *)
(* generation order declared n (an ASSIGN or a FOR, at any depth, also in  *)
(* a block that has ended) and the bare reassignment otherwise; so each    *)
(* name gets at most one declaration from ASSIGN instructions, and every   *)
(* ASSIGN emits one of the two lines.                                      *)
(***************************************************************************)
DeclaredBefore(i, n) ==
    \E j \in 1..(i - 1) : IsAssignDecl(result[j], n) \/ IsForDecl(result[j], n)

C1_DeclareOnce ==
    Generated =>
        /\ \A n \in VarNames : \A i \in 1..Len(result) :
              /\ IsAssignDecl(result[i], n) => ~DeclaredBefore(i, n)
              /\ IsReassign(result[i], n) => DeclaredBefore(i, n)
        /\ \A n \in VarNames :
              Cardinality({ i \in 1..Len(result) : IsAssignDecl(result[i], n) }) <= 1
        /\ CountInstr(ir.instructions, LAMBDA h : h.action = "ASSIGN")
             = CountLines(LAMBDA l : \E n \in VarNames : IsAssignDecl(l, n) \/ IsReassign(l, n))

\* x is declared inside a nested block and reassigned later in an outer one
C1_Witness ==
    /\ Generated
    /\ \E i, j \in 1..Len(result) :
          /\ i < j
          /\ IsAssignDecl(result[i], "x")
          /\ IsReassign(result[j], "x")
          /\ result[j].tab < result[i].tab

(***************************************************************************)
(* C2 (as claimed): after a parse failure the generated text of every      *)
(* target has, between header and footer, a line carrying the error text.  *)
(***************************************************************************)
C2_CommentRendered ==
    (Generated /\ ParseFailed) =>
        \E k \in 1..Len(ir.instructions) :
            /\ ir.instructions[k].action = "COMMENT"
            /\ \E i \in BodyLines : \E t \in 1..Len(result[i].toks) :
                  result[i].toks[t] = ir.instructions[k].text

(***************************************************************************)
(* C3 (as claimed): whenever parse caught an exception the IR is exactly   *)
(* one Comment instruction.                                                *)
(***************************************************************************)
C3_OnlyComment ==
    ParseFailed => Len(ir.instructions) = 1

(***************************************************************************)
(* C4 (as claimed): a PRINT is emitted with its parts in order and one     *)
(* single-space separator before every part after the first, string        *)
(* literal or not, in every target.                                        *)
(***************************************************************************)
PartText(p) == IF p.type = "string" THEN <<Quote>> \o p.val \o <<Quote>> ELSE p.val

ClaimedPrint(parts, lang) ==
    IF lang = "cpp" THEN
        <<"cout << ">>
        \o Join([i \in 1..Len(parts) |->
                   IF i > 1 THEN <<"\" \" << ">> \o PartText(parts[i]) ELSE PartText(parts[i])],
                " << ")
        \o <<" << endl;">>
    ELSE IF lang = "java" THEN
        <<"System.out.println(">>
        \o Join([i \in 1..Len(parts) |->
                   IF i > 1 THEN <<"\" \" + ">> \o PartText(parts[i]) ELSE PartText(parts[i])],
                " + ")
        \o <<");">>
    ELSE
        <<"printf(\"">>
        \o Join([i \in 1..Len(parts) |->
                   IF parts[i].type = "string" THEN <<"%s">> ELSE <<"%d">>], " ")
        \o <<"\\n\", ">>
        \o Join([i \in 1..Len(parts) |-> PartText(parts[i])], ", ")
        \o <<");">>

C4_PrintSeparators ==
    (Generated /\ Len(ir.instructions) = 1 /\ ir.instructions[1].action = "PRINT") =>
        \A i \in BodyLines :
            LineText(result[i])
              = Tab(BodyIndent(self.lang)) \o Cat(ClaimedPrint(ir.instructions[1].parts, self.lang))

(***************************************************************************)
(* C5 (as claimed): after the header of a FOR over v, no later line        *)
(* declares v again, neither an ASSIGN nor another FOR header.             *)
(***************************************************************************)
C5_NeverRedeclared ==
    Generated =>
        \A v \in VarNames : \A i, j \in 1..Len(result) :
            (i < j /\ IsForDecl(result[i], v)) =>
                ~(IsAssignDecl(result[j], v) \/ IsForDecl(result[j], v))

(***************************************************************************)
(* C5 (amended): after the header of a FOR over v, no later ASSIGN to v    *)
(* emits a type declaration of v, inside the body or after the loop; every *)
(* FOR, also one that reuses v, emits its own `for(int v=0; ...` header.   *)
(***************************************************************************)
C5_NoAssignDeclAfterFor ==
    Generated =>
        /\ \A v \in VarNames : \A i, j \in 1..Len(result) :
              (i < j /\ IsForDecl(result[i], v)) => ~IsAssignDecl(result[j], v)
        /\ CountInstr(ir.instructions, LAMBDA h : h.action = "FOR")
             = CountLines(LAMBDA l : \E v \in VarNames : IsForDecl(l, v))

\* a FOR over x, a second FOR over x after its header, and then an assignment to x
C5_Witness ==
    /\ Generated
    /\ \E i, j, k \in 1..Len(result) :
          /\ i < j /\ j < k
          /\ IsForDecl(result[i], "x")
          /\ IsForDecl(result[j], "x")
          /\ IsReassign(result[k], "x")

(***************************************************************************)
(* C6: a program that is one `if __name__ == "__main__":` without else     *)
(* around the statements S parses to the IR of S at top level.             *)
(***************************************************************************)
IsGuarded ==
    /\ code.parses
    /\ Len(code.body) = 1
    /\ code.body[1].kind = "If"
    /\ code.body[1].test = CondMain
    /\ code.body[1].orelse = <<>>

C6_GuardUnwrapped ==
    (ir.built /\ IsGuarded) => ir.instructions = parse(Module(code.body[1].body))

\* a guard around two statements, both translated
C6_Witness ==
    /\ ir.built
    /\ IsGuarded
    /\ Len(code.body[1].body) = 2
    /\ Len(ir.instructions) = 2
    /\ ~ParseFailed

(***************************************************************************)
(* C7: two generate calls in a row with the same IR and the same target    *)
(* return the same text, on one Generator instance as well as on a new     *)
(* one.                                                                    *)
(***************************************************************************)
SameCallAgain ==
    /\ Generated
    /\ prev.lang = self.lang
    /\ prev.instructions = ir.instructions

C7_Idempotent == SameCallAgain => result = prev.result

\* the repeated call declared a variable, which a stale declared set would not
C7_Witness ==
    /\ SameCallAgain
    /\ \E i \in 1..Len(result) : IsAssignDecl(result[i], "x")
    /\ \E i \in 1..Len(result) : IsReassign(result[i], "x")

(***************************************************************************)
(* C8 (as claimed): for a program of assignments and print calls (and      *)
(* skipped defs and imports) the number of statements emitted between      *)
(* header and footer is the number of assignments and prints.              *)
(***************************************************************************)
IsPrintCall(node) ==
    /\ node.kind = "Expr"
    /\ node.value.kind = "Call"
    /\ node.value.func = Name("print")

OnlyAssignsAndPrints ==
    /\ code.parses
    /\ \A i \in 1..Len(code.body) :
          \/ code.body[i].kind \in {"Assign", "FunctionDef", "Import"}
          \/ IsPrintCall(code.body[i])

C8_StatementCount ==
    (Generated /\ OnlyAssignsAndPrints) =>
        Cardinality(BodyLines)
          = Cardinality({ i \in 1..Len(code.body) :
                            code.body[i].kind = "Assign" \/ IsPrintCall(code.body[i]) })

(***************************************************************************)
(* C9 (as claimed): a for statement yields one FOR whose limit is the      *)
(* rendered argument when the iterable is range with exactly one argument  *)
(* and "10" for every other iterable.                                      *)
(***************************************************************************)
IsSingleFor == code.parses /\ Len(code.body) = 1 /\ code.body[1].kind = "For"

ClaimedLimit(iter) ==
    IF iter.kind = "Call" /\ iter.func = Name("range") /\ Len(iter.args) = 1
    THEN eval_val(iter.args[1]).text
    ELSE <<"10">>

C9_ForLimit ==
    (ir.built /\ IsSingleFor) =>
        /\ Len(ir.instructions) = 1
        /\ ir.instructions[1].action = "FOR"
        /\ ir.instructions[1].limit = ClaimedLimit(code.body[1].iter)

(***************************************************************************)
(* C10: the generated text is balanced: read in order, every closing line  *)
(* closes the innermost open block and has its indentation, no block is    *)
(* left open after the footer, and there are as many `} else {` lines as   *)
(* IF instructions with a non-empty else block.                            *)
(***************************************************************************)
OpeningEnds ==
    { "int main() {", "public class Main {", "public static void main(String[] args) {",
      "++) {", ") {", "} else {" }

Opens(l)  == l.toks # <<>> /\ l.toks[Len(l.toks)] \in OpeningEnds
Closes(l) == l.toks # <<>> /\ l.toks[1] \in {"}", "} else {"}
IsElse(l) == l.toks = <<"} else {">>

RECURSIVE Balanced(_, _)
\* open holds the indentation of the blocks that are open, innermost last
Balanced(ls, open) ==
    IF ls = <<>> THEN open = <<>>
    ELSE LET l == Head(ls)
             closed == IF Closes(l) THEN SubSeq(open, 1, Len(open) - 1) ELSE open
         IN /\ Closes(l) => (open # <<>> /\ open[Len(open)] = l.tab)
            /\ Balanced(Tail(ls), IF Opens(l) THEN Append(closed, l.tab) ELSE closed)

C10_Balanced ==
    Generated =>
        /\ Balanced(result, <<>>)
        /\ CountLines(IsElse)
             = CountInstr(ir.instructions, LAMBDA h : h.action = "IF" /\ h.else_body # <<>>)

\* java text with an if/else: opened, switched and closed at the body's indentation,
\* with a statement one level deeper in each branch
C10_Witness ==
    /\ Generated
    /\ self.lang = "java"
    /\ \E i, j, k \in BodyLines :
          /\ i + 1 < j /\ j + 1 < k
          /\ Opens(result[i]) /\ ~Closes(result[i]) /\ result[i].tab = BodyIndent("java")
          /\ IsElse(result[j]) /\ result[j].tab = BodyIndent("java")
          /\ result[k].toks = <<"}">> /\ result[k].tab = BodyIndent("java")
          /\ result[i + 1].tab = BodyIndent("java") + 1
          /\ result[j + 1].tab = BodyIndent("java") + 1

====
